---- MODULE Spec2Model ----
(***************************************************************************)
(* Model of the email campaign service of postmangovsg                     *)
(* (backend/src/email/services/email.service.ts): the chunked CSV upload   *)
(* handlers that replace a campaign's message rows inside one database     *)
(* transaction, and the test-send path (findCampaign, sendCampaignMessage).*)
(***************************************************************************)
EXTENDS Integers, Sequences, FiniteSets, TLC

(* ------------------------------------------------------------------ *)
(* Bounds                                                              *)
(* ------------------------------------------------------------------ *)

\* Most CSV rows one upload delivers, over all of its chunks.
MaxRows == 3

\* Most message rows the store holds when a test send starts.
MaxStored == 2

(* ------------------------------------------------------------------ *)
(* Values                                                              *)
(* ------------------------------------------------------------------ *)

Null == "null"

CampaignIds == {1, 2}

UserIds == {10, 11}

\* The campaign the upload handlers are closed over.
UploadCampaign == 1

OtherCampaign == CHOOSE c \in CampaignIds : c # UploadCampaign

ChannelTypes == {"EMAIL", "SMS"}

People == {"Alex", "Bo"}

Recipients == {"a@x.com", "b@x.com"}

\* The column sets a parsed CSV can have.
PlainHeader == {"recipient", "name"}

BareHeader == {"recipient"}

PartialProtectedHeader == {"recipient", "payload"}

\* The columns a protected upload must carry.
PROTECTED_CSV_HEADERS == {"recipient", "payload", "passwordhash", "id"}

Headers == {PlainHeader, BareHeader, PartialProtectedHeader,
            PROTECTED_CSV_HEADERS}

\* The cell of column col in the CSV row of person p.
Cell(col, p) ==
    CASE col = "recipient"    -> (IF p = "Alex" THEN "a@x.com" ELSE "b@x.com")
      [] col = "name"         -> p
      [] col = "payload"      -> (IF p = "Alex" THEN "enc-1" ELSE "enc-2")
      [] col = "passwordhash" -> (IF p = "Alex" THEN "hash-1" ELSE "hash-2")
      [] col = "id"           -> (IF p = "Alex" THEN "id-1" ELSE "id-2")
      [] OTHER                -> Null

\* A CSVParams entry: the parsed row, a mapping from column name to cell.
CsvRow(header, p) == [col \in header |-> Cell(col, p)]

CsvRows(header) == {CsvRow(header, p) : p \in People}

\* The chunks the reader can deliver: non-empty sequences of rows of one header.
Chunks(header, maxLen) ==
    UNION {[1..n -> CsvRows(header)] : n \in 1..maxLen}

(* ------------------------------------------------------------------ *)
(* Templates                                                           *)
(* ------------------------------------------------------------------ *)

Lit(s) == [kind |-> "lit", text |-> s]

Var(k) == [kind |-> "var", text |-> k]

NoTemplate == [subject |-> <<>>, body |-> <<>>, replyTo |-> Null,
               params |-> {}, absent |-> TRUE]

\* "Hi {{name}}"
TemplateHi == [subject |-> <<Lit("Welcome")>>,
               body |-> <<Lit("Hi "), Var("name")>>,
               replyTo |-> Null, params |-> {"name"}, absent |-> FALSE]

\* "Note for {{recipient}}", with a reply-to address
TemplateNote == [subject |-> <<Lit("Note for "), Var("recipient")>>,
                 body |-> <<Lit("See attached")>>,
                 replyTo |-> "reply@x.com", params |-> {"recipient"},
                 absent |-> FALSE]

Templates == {TemplateHi, TemplateNote}

\* The placeholders a text refers to.
Placeholders(text) ==
    {text[i].text : i \in {j \in DOMAIN text : text[j].kind = "var"}}

\* EmailTemplateService.client.template: whether the text can be filled.
CanFill(text, params) == Placeholders(text) \subseteq DOMAIN params

\* EmailTemplateService.client.template: every placeholder replaced by its value.
Fill(text, params) ==
    [i \in DOMAIN text |->
        IF text[i].kind = "var" THEN params[text[i].text] ELSE text[i].text]

\* UploadService.checkTemplateKeysMatch: the first row's columns cover the keys.
checkTemplateKeysMatch(data, keys) == keys \subseteq DOMAIN data[1]

\* EmailTemplateService.testHydration: trial render of subject and body.
testHydration(records, body, subject) ==
    /\ CanFill(body, records[1].params)
    /\ CanFill(subject, records[1].params)

(* ------------------------------------------------------------------ *)
(* State                                                               *)
(* ------------------------------------------------------------------ *)

VARIABLES
    campaigns,          \* the campaigns table
    emailTemplates,     \* campaign id -> its stored template, or NoTemplate
    emailMessages,      \* the committed email_messages rows, in insertion order
    protectedMessages,  \* the committed protected_messages rows
    txState,            \* the upload transaction: none, open, rollingBack, rolledBack, committed
    txEmail,            \* email_messages as the open transaction sees it
    txProtected,        \* protected_messages as the open transaction sees it
    pc,                 \* the chunked reader: idle, preview, chunk, done, failed
    upload,             \* which upload of the campaign is running: first, second
    protect,            \* whether the campaign is a protected one
    header,             \* the column set of the CSV being read
    csvRows,            \* the rows the reader has handed to the chunk handler
    chunkNo,            \* how many chunks the chunk handler has persisted
    error,              \* the error the upload caller has observed, or none
    failedAt,           \* the phase that raised it: none, preview, chunk
    preEmail,           \* email_messages when the upload started
    preProtected,       \* protected_messages when the upload started
    found,              \* what the last findCampaign call returned
    sent,               \* how the last sendCampaignMessage call ended
    transportCalls      \* the mails that call handed to the transport

vars == <<campaigns, emailTemplates, emailMessages, protectedMessages,
          txState, txEmail, txProtected, pc, upload, protect, header, csvRows,
          chunkNo, error, failedAt, preEmail, preProtected, found, sent, transportCalls>>

dbVars == <<campaigns, emailTemplates, emailMessages, protectedMessages>>

uploadVars == <<txState, txEmail, txProtected, pc, upload, protect, header,
                csvRows, chunkNo, error, failedAt, preEmail, preProtected>>

sendVars == <<found, sent, transportCalls>>

(* ------------------------------------------------------------------ *)
(* Store operations                                                    *)
(* ------------------------------------------------------------------ *)

\* Model.destroy({ where: { campaignId } }): the rows of other campaigns stay.
destroy(table, campaignId) ==
    SelectSeq(table, LAMBDA r : r.campaignId # campaignId)

\* Model.bulkCreate(records): the records are appended in their order.
bulkCreate(table, records) == table \o records

\* The rows of one campaign, in table order.
RowsOf(table, campaignId) ==
    SelectSeq(table, LAMBDA r : r.campaignId = campaignId)

\* A variant that keeps the recipient column out of the stored parameters.
MessageRecordsWithoutRecipient(data, campaignId) ==
    [i \in DOMAIN data |->
        [campaignId |-> campaignId,
         recipient  |-> data[i]["recipient"],
         params     |-> [k \in DOMAIN data[i] \ {"recipient"} |-> data[i][k]],
         upload     |-> upload]]

\* The records uploadCompleteOnChunk builds from a chunk.
MessageRecords(data, campaignId) ==
    [i \in DOMAIN data |->
        [campaignId |-> campaignId,
         recipient  |-> data[i]["recipient"],
         params     |-> data[i],
         upload     |-> upload]]

\* ProtectedService.storeProtectedMessages: the protected rows it stores.
ProtectedRecords(data, campaignId) ==
    [i \in DOMAIN data |->
        [campaignId   |-> campaignId,
         id           |-> data[i]["id"],
         payload      |-> data[i]["payload"],
         passwordHash |-> data[i]["passwordhash"],
         upload       |-> upload]]

\* ProtectedService.storeProtectedMessages: the message records it returns,
\* each referring to its protected row.
ProtectedMessageRecords(data, campaignId) ==
    [i \in DOMAIN data |->
        [campaignId |-> campaignId,
         recipient  |-> data[i]["recipient"],
         params     |-> [recipient |-> data[i]["recipient"],
                         id |-> data[i]["id"]],
         upload     |-> upload]]

(* ------------------------------------------------------------------ *)
(* The upload: one transaction over the preview and every chunk        *)
(* ------------------------------------------------------------------ *)

\* throw err: the handler's promise rejects and the upload caller sees err,
\* stops the read and calls no further handler.
Raise(err, phase) ==
    /\ pc' = "failed"
    /\ error' = err
    /\ failedAt' = phase

\* transaction?.rollback(): the call only starts the rollback; the promise
\* it returns is not awaited.
Rollback == txState' = "rollingBack"

\* The upload caller opens the transaction and starts the chunked reader
\* on a CSV file.
BeginUpload(h) ==
    /\ pc = "idle"
    /\ pc' = "preview"
    /\ header' = h
    /\ txState' = "open"
    /\ txEmail' = emailMessages
    /\ txProtected' = protectedMessages
    /\ preEmail' = emailMessages
    /\ preProtected' = protectedMessages
    /\ csvRows' = <<>>
    /\ chunkNo' = 0
    /\ UNCHANGED <<dbVars, sendVars, upload, protect, error, failedAt>>

\* A variant that deletes the rows before it validates the CSV.
uploadCompleteOnPreviewDestroyFirst(data) ==
    /\ pc = "preview"
    /\ ~protect
    /\ LET template == emailTemplates[UploadCampaign] IN
       IF ~checkTemplateKeysMatch(data, template.params)
       THEN /\ txEmail' = destroy(txEmail, UploadCampaign)
            /\ Raise("HeaderMismatch", "preview")
            /\ UNCHANGED txState
       ELSE /\ txEmail' = destroy(txEmail, UploadCampaign)
            /\ pc' = "chunk"
            /\ UNCHANGED <<txState, error, failedAt>>
    /\ UNCHANGED <<dbVars, sendVars, txProtected, upload, protect, header,
                   csvRows, chunkNo, preEmail, preProtected>>

uploadCompleteOnPreview(data) ==
    /\ pc = "preview"
    /\ ~protect
    /\ LET template == emailTemplates[UploadCampaign] IN
       IF ~checkTemplateKeysMatch(data, template.params)
       THEN /\ Raise("HeaderMismatch", "preview")
            /\ UNCHANGED <<txState, txEmail>>
       ELSE IF ~testHydration(<<[params |-> data[1]]>>, template.body,
                              template.subject)
       THEN /\ Raise("TemplateHydrationFailure", "preview")
            /\ UNCHANGED <<txState, txEmail>>
       ELSE \E ok \in BOOLEAN :
            IF ok
            THEN /\ txEmail' = destroy(txEmail, UploadCampaign)
                 /\ pc' = "chunk"
                 /\ UNCHANGED <<txState, error, failedAt>>
            ELSE /\ Rollback
                 /\ Raise("PersistenceFailure", "preview")
                 /\ UNCHANGED txEmail
    /\ UNCHANGED <<dbVars, sendVars, txProtected, upload, protect, header,
                   csvRows, chunkNo, preEmail, preProtected>>

\* A variant whose catch clause rethrows without rolling back.
uploadCompleteOnChunkNoRollback(data) ==
    /\ pc = "chunk"
    /\ ~protect
    /\ Len(csvRows) + Len(data) <= MaxRows
    /\ csvRows' = csvRows \o data
    /\ \E ok \in BOOLEAN :
            IF ok
            THEN /\ txEmail' = bulkCreate(txEmail,
                                  MessageRecords(data, UploadCampaign))
                 /\ chunkNo' = chunkNo + 1
                 /\ UNCHANGED <<txState, pc, error, failedAt>>
            ELSE /\ Raise("PersistenceFailure", "chunk")
                 /\ UNCHANGED <<txState, txEmail, chunkNo>>
    /\ UNCHANGED <<dbVars, sendVars, txProtected, upload, protect, header,
                   preEmail, preProtected>>

uploadCompleteOnChunk(data) ==
    /\ pc = "chunk"
    /\ ~protect
    /\ Len(csvRows) + Len(data) <= MaxRows
    /\ csvRows' = csvRows \o data
    /\ LET records == MessageRecords(data, UploadCampaign) IN
       \E ok \in BOOLEAN :
            IF ok
            THEN /\ txEmail' = bulkCreate(txEmail, records)
                 /\ chunkNo' = chunkNo + 1
                 /\ UNCHANGED <<txState, pc, error, failedAt>>
            ELSE /\ Rollback
                 /\ Raise("PersistenceFailure", "chunk")
                 /\ UNCHANGED <<txEmail, chunkNo>>
    /\ UNCHANGED <<dbVars, sendVars, txProtected, upload, protect, header,
                   preEmail, preProtected>>

uploadProtectedCompleteOnPreview(data) ==
    /\ pc = "preview"
    /\ protect
    /\ LET template == emailTemplates[UploadCampaign] IN
       IF ~checkTemplateKeysMatch(data, PROTECTED_CSV_HEADERS)
       THEN /\ Raise("HeaderMismatch", "preview")
            /\ UNCHANGED <<txState, txProtected>>
       ELSE IF ~testHydration(<<[params |-> data[1]]>>, template.body,
                              template.subject)
       THEN /\ Raise("TemplateHydrationFailure", "preview")
            /\ UNCHANGED <<txState, txProtected>>
       ELSE \E ok \in BOOLEAN :
            IF ok
            THEN /\ txProtected' = destroy(txProtected, UploadCampaign)
                 /\ pc' = "chunk"
                 /\ UNCHANGED <<txState, error, failedAt>>
            ELSE /\ Rollback
                 /\ Raise("PersistenceFailure", "preview")
                 /\ UNCHANGED txProtected
    /\ UNCHANGED <<dbVars, sendVars, txEmail, upload, protect, header,
                   csvRows, chunkNo, preEmail, preProtected>>

uploadProtectedCompleteOnChunk(data) ==
    /\ pc = "chunk"
    /\ protect
    /\ Len(csvRows) + Len(data) <= MaxRows
    /\ csvRows' = csvRows \o data
    /\ \E outcome \in {"ok", "storeFails", "insertFails"} :
         CASE outcome = "storeFails" ->
                /\ Rollback
                /\ Raise("PersistenceFailure", "chunk")
                /\ UNCHANGED <<txEmail, txProtected, chunkNo>>
           [] outcome = "insertFails" ->
                /\ txProtected' = bulkCreate(txProtected,
                                      ProtectedRecords(data, UploadCampaign))
                /\ Rollback
                /\ Raise("PersistenceFailure", "chunk")
                /\ UNCHANGED <<txEmail, chunkNo>>
           [] OTHER ->
                /\ txProtected' = bulkCreate(txProtected,
                                      ProtectedRecords(data, UploadCampaign))
                /\ txEmail' = bulkCreate(txEmail,
                                  ProtectedMessageRecords(data, UploadCampaign))
                /\ chunkNo' = chunkNo + 1
                /\ UNCHANGED <<txState, pc, error, failedAt>>
    /\ UNCHANGED <<dbVars, sendVars, upload, protect, header, preEmail,
                   preProtected>>

\* The rollback started by a handler reaches the database: what the
\* transaction wrote is discarded.
RollbackComplete ==
    /\ txState = "rollingBack"
    /\ txState' = "rolledBack"
    /\ txEmail' = emailMessages
    /\ txProtected' = protectedMessages
    /\ UNCHANGED <<dbVars, sendVars, pc, upload, protect, header, csvRows,
                   chunkNo, error, failedAt, preEmail, preProtected>>

\* The reader has delivered its last chunk and the upload caller commits.
Commit ==
    /\ pc = "chunk"
    /\ txState = "open"
    /\ csvRows # <<>>
    /\ emailMessages' = txEmail
    /\ protectedMessages' = txProtected
    /\ txState' = "committed"
    /\ pc' = "done"
    /\ UNCHANGED <<campaigns, emailTemplates, sendVars, txEmail, txProtected,
                   upload, protect, header, csvRows, chunkNo, error, failedAt,
                   preEmail, preProtected>>

\* The operator uploads another CSV to the same campaign.
NextUpload ==
    /\ pc = "done"
    /\ upload = "first"
    /\ upload' = "second"
    /\ pc' = "idle"
    /\ txState' = "none"
    /\ csvRows' = <<>>
    /\ chunkNo' = 0
    /\ UNCHANGED <<dbVars, sendVars, txEmail, txProtected, protect, header,
                   error, failedAt, preEmail, preProtected>>

\* A message row and a protected row that an earlier upload left.
OldMessage(campaignId, p) ==
    [campaignId |-> campaignId, recipient |-> Cell("recipient", p),
     params |-> CsvRow(PlainHeader, p), upload |-> "old"]

OldProtected(campaignId, p) ==
    [campaignId |-> campaignId, id |-> Cell("id", p),
     payload |-> Cell("payload", p), passwordHash |-> Cell("passwordhash", p),
     upload |-> "old"]

InitCampaigns ==
    {[id |-> 1, userId |-> 10, type |-> "EMAIL", credName |-> "custom"],
     [id |-> 2, userId |-> 11, type |-> "SMS", credName |-> "custom"]}

\* The campaigns tables findCampaign is tried on: each campaign is of either
\* channel and of either owner.
CampaignTables ==
    {{[id |-> 1, userId |-> u1, type |-> t1, credName |-> "custom"],
      [id |-> 2, userId |-> u2, type |-> t2, credName |-> "custom"]} :
        u1 \in UserIds, t1 \in ChannelTypes,
        u2 \in UserIds, t2 \in ChannelTypes}

None == <<>>

Some(x) == <<x>>

InitIdle ==
    /\ txState = "none"
    /\ txEmail = emailMessages
    /\ txProtected = protectedMessages
    /\ pc = "idle"
    /\ upload = "first"
    /\ header = PlainHeader
    /\ csvRows = <<>>
    /\ chunkNo = 0
    /\ error = "none"
    /\ failedAt = "none"
    /\ preEmail = emailMessages
    /\ preProtected = protectedMessages
    /\ found = [called |-> FALSE, campaignId |-> 0, userId |-> 0,
                result |-> None]
    /\ sent = [status |-> "none", campaignId |-> 0, error |-> Null,
               recipient |-> Null]
    /\ transportCalls = <<>>

Init ==
    /\ campaigns = InitCampaigns
    /\ protect \in BOOLEAN
    /\ emailTemplates \in
         {[c \in CampaignIds |-> IF c = UploadCampaign THEN t ELSE TemplateNote] :
             t \in Templates}
    /\ emailMessages = <<OldMessage(OtherCampaign, "Bo"),
                         OldMessage(UploadCampaign, "Alex")>>
    /\ protectedMessages = <<OldProtected(OtherCampaign, "Bo"),
                             OldProtected(UploadCampaign, "Alex")>>
    /\ InitIdle

Next ==
    \/ \E h \in Headers : BeginUpload(h)
    \/ \E data \in Chunks(header, MaxRows) : uploadCompleteOnPreview(data)
    \/ \E data \in Chunks(header, MaxRows) : uploadCompleteOnChunk(data)
    \/ \E data \in Chunks(header, MaxRows) : uploadProtectedCompleteOnPreview(data)
    \/ \E data \in Chunks(header, MaxRows) : uploadProtectedCompleteOnChunk(data)
    \/ RollbackComplete
    \/ Commit
    \/ NextUpload

Spec == Init /\ [][Next]_vars

(* ------------------------------------------------------------------ *)
(* The test send                                                       *)
(* ------------------------------------------------------------------ *)

\* What a call yields: a value, nothing (void), or a thrown error.
Value(v) == [kind |-> "value", value |-> v]

Void == [kind |-> "void", value |-> Null]

Thrown(e) == [kind |-> "throw", value |-> e]

\* What MailService.mailClient.sendMail can do with a mail.
TransportOutcomes == {"messageId", "empty", "throws", "rejects"}

\* EmailMessage.findOne({ where: { campaignId } }): no order is asked for,
\* so the row is any row of the campaign, here its i-th.
getParams(campaignId, i) ==
    LET rows == RowsOf(emailMessages, campaignId) IN
    IF rows = <<>> THEN Void ELSE Value(rows[i].params)

\* EmailTemplateService.getFilledTemplate
getFilledTemplate(campaignId) ==
    IF campaignId \in DOMAIN emailTemplates /\ ~emailTemplates[campaignId].absent
    THEN Value(emailTemplates[campaignId])
    ELSE Void

getHydratedMessage(campaignId, i) ==
    LET template == getFilledTemplate(campaignId)
        params   == getParams(campaignId, i)
    IN  IF template.kind = "void" \/ params.kind = "void" THEN Void
        ELSE IF ~CanFill(template.value.subject, params.value)
                \/ ~CanFill(template.value.body, params.value)
        THEN Thrown("TemplateError")
        ELSE Value([body    |-> Fill(template.value.body, params.value),
                    subject |-> Fill(template.value.subject, params.value),
                    replyTo |-> template.value.replyTo])

getCampaignMessage(campaignId, recipient, i) ==
    LET message == getHydratedMessage(campaignId, i) IN
    IF message.kind = "value"
    THEN Value([recipients |-> <<recipient>>,
                body |-> message.value.body,
                subject |-> message.value.subject]
               @@ (IF message.value.replyTo # Null
                   THEN [replyTo |-> message.value.replyTo]
                   ELSE <<>>))
    ELSE message

\* sendEmail: the promise of sendMail is returned from inside the try block
\* without being awaited, so the catch clause sees only an error that
\* sendMail throws before it returns its promise.
sendEmail(mail, outcome) ==
    CASE outcome = "messageId" -> Value("message-id")
      [] outcome = "empty"     -> Void
      [] outcome = "throws"    -> Void
      [] OTHER                 -> Thrown("TransportError")

\* A variant that hands whatever was composed to the transport, without the
\* "No message to send" check.
sendCampaignMessageUnchecked(campaignId, recipient, i, outcome) ==
    /\ LET mail == getCampaignMessage(campaignId, recipient, i)
           isEmailSent == sendEmail(mail.value, outcome)
       IN  /\ transportCalls' = <<[mail |-> mail.value, outcome |-> outcome]>>
           /\ sent' =
                IF isEmailSent.kind = "value"
                THEN [status |-> "ok", campaignId |-> campaignId,
                      error |-> Null, recipient |-> recipient]
                ELSE [status |-> "failed", campaignId |-> campaignId,
                      error |-> "Could not send test email to",
                      recipient |-> recipient]
    /\ UNCHANGED <<dbVars, uploadVars, found>>

sendCampaignMessage(campaignId, recipient, i, outcome) ==
    /\ LET mail == getCampaignMessage(campaignId, recipient, i) IN
       IF mail.kind = "throw"
       THEN /\ sent' = [status |-> "failed", campaignId |-> campaignId, error |-> mail.value,
                        recipient |-> recipient]
            /\ transportCalls' = <<>>
       ELSE IF mail.kind = "void"
       THEN /\ sent' = [status |-> "failed", campaignId |-> campaignId, error |-> "No message to send",
                        recipient |-> recipient]
            /\ transportCalls' = <<>>
       ELSE LET isEmailSent == sendEmail(mail.value, outcome) IN
            /\ transportCalls' = <<[mail |-> mail.value, outcome |-> outcome]>>
            /\ sent' =
                 IF isEmailSent.kind = "throw"
                 THEN [status |-> "failed", campaignId |-> campaignId, error |-> isEmailSent.value,
                       recipient |-> recipient]
                 ELSE IF isEmailSent.kind = "void"
                 THEN [status |-> "failed", campaignId |-> campaignId,
                       error |-> "Could not send test email to",
                       recipient |-> recipient]
                 ELSE [status |-> "ok", campaignId |-> campaignId, error |-> Null,
                       recipient |-> recipient]
    /\ UNCHANGED <<dbVars, uploadVars, found>>

\* A variant that leaves the owner out of the where clause.
findCampaignAnyOwner(campaignId, userId) ==
    LET matches == {c \in campaigns : c.id = campaignId /\ c.type = "EMAIL"}
    IN  IF matches = {} THEN None ELSE Some(CHOOSE c \in matches : TRUE)

\* Campaign.findOne({ where: { id, userId, type: ChannelType.Email } })
findCampaign(campaignId, userId) ==
    LET matches == {c \in campaigns : /\ c.id = campaignId
                                       /\ c.userId = userId
                                       /\ c.type = "EMAIL"}
    IN  IF matches = {} THEN None ELSE Some(CHOOSE c \in matches : TRUE)

FindCampaign(campaignId, userId) ==
    /\ found' = [called |-> TRUE, campaignId |-> campaignId,
                 userId |-> userId, result |-> findCampaign(campaignId, userId)]
    /\ UNCHANGED <<dbVars, uploadVars, sent, transportCalls>>

\* Campaign.update({ credName: 'EMAIL_DEFAULT' }, { where: { id } })
setCampaignCredential(campaignId) ==
    /\ campaigns' = {IF c.id = campaignId
                     THEN [c EXCEPT !.credName = "EMAIL_DEFAULT"]
                     ELSE c : c \in campaigns}
    /\ UNCHANGED <<emailTemplates, emailMessages, protectedMessages,
                   uploadVars, sendVars>>

\* The message rows a store can hold when a test send starts: of either
\* campaign, with the name column or without it.
StoredRows ==
    {OldMessage(c, "Alex") : c \in CampaignIds}
    \cup {[campaignId |-> c, recipient |-> Cell("recipient", "Bo"),
            params |-> CsvRow(BareHeader, "Bo"), upload |-> "old"] :
              c \in CampaignIds}

SendInit ==
    /\ campaigns = InitCampaigns
    /\ protect = FALSE
    /\ emailTemplates \in
         {[c \in CampaignIds |-> IF c = UploadCampaign THEN t ELSE TemplateNote] :
             t \in Templates \cup {NoTemplate}}
    /\ emailMessages \in UNION {[1..n -> StoredRows] : n \in 0..MaxStored}
    /\ protectedMessages = <<>>
    /\ InitIdle

\* The ids a caller can ask for: those of the table and one that is unknown.
AskedIds == CampaignIds \cup {3}

SendNext ==
    \E c \in CampaignIds, r \in Recipients, i \in 1..MaxStored,
          outcome \in TransportOutcomes :
          /\ i <= Len(RowsOf(emailMessages, c)) \/ i = 1
          /\ sendCampaignMessage(c, r, i, outcome)

SendSpec == SendInit /\ [][SendNext]_vars

FindInit ==
    /\ campaigns \in CampaignTables
    /\ protect = FALSE
    /\ emailTemplates = [c \in CampaignIds |-> TemplateNote]
    /\ emailMessages = <<>>
    /\ protectedMessages = <<>>
    /\ InitIdle

FindNext ==
    \/ \E c \in AskedIds, u \in UserIds : FindCampaign(c, u)
    \/ \E c \in AskedIds : setCampaignCredential(c)

FindSpec == FindInit /\ [][FindNext]_vars

(* ------------------------------------------------------------------ *)
(* Properties                                                          *)
(* ------------------------------------------------------------------ *)

\* The columns the preview phase requires of the CSV.
RequiredKeys ==
    IF protect THEN PROTECTED_CSV_HEADERS
    ELSE emailTemplates[UploadCampaign].params

\* The committed tables are what they were when the upload started.
CommittedUntouched ==
    /\ emailMessages = preEmail
    /\ protectedMessages = preProtected

\* C1: after two sequential successful uploads to a campaign, plain or
\* protected, no message row written by the first upload remains for it.
C1_SecondUploadReplacesFirst ==
    (upload = "second" /\ pc = "done") =>
        \A i \in DOMAIN emailMessages :
            ~(/\ emailMessages[i].campaignId = UploadCampaign
              /\ emailMessages[i].upload = "first")

\* C2: when the persistence step of a chunk fails, the handler has called
\* the rollback of the upload transaction, the committed message rows (and
\* protected rows) are those from before the upload, and once the rollback
\* has finished neither the preview delete nor any chunk's insert is left
\* in the transaction either.
C2_ChunkFailureRollsBackAll ==
    (pc = "failed" /\ failedAt = "chunk") =>
        /\ txState \in {"rollingBack", "rolledBack"}
        /\ CommittedUntouched
        /\ txState = "rolledBack" =>
              (txEmail = preEmail /\ txProtected = preProtected)

\* C2 witness: a chunk failed after an earlier chunk had been inserted, the
\* rollback has finished, and the campaign had rows before the upload.
C2_Witness ==
    /\ pc = "failed"
    /\ failedAt = "chunk"
    /\ chunkNo >= 1
    /\ txState = "rolledBack"
    /\ RowsOf(preEmail, UploadCampaign) # <<>>

\* C3: on any failure in the preview phase (header mismatch, failed trial
\* hydration, failed delete) the handler has rolled the upload transaction
\* back (the rollback is at least under way) and no row has been deleted.
C3_PreviewFailureRollsBack ==
    (pc = "failed" /\ failedAt = "preview") =>
        /\ txState \in {"rollingBack", "rolledBack"}
        /\ CommittedUntouched
        /\ txEmail = preEmail
        /\ txProtected = preProtected

\* C4: the caller never holds a persistence error while the rollback of the
\* upload transaction is unfinished.
C4_RollbackDoneBeforeError ==
    error = "PersistenceFailure" => txState = "rolledBack"

\* C5: after a successful upload to a plain campaign the campaign's message
\* rows are the delivered CSV rows, one per row and in their order: the i-th
\* has the i-th row's recipient and the whole i-th row as its parameters.
C5_RowsMatchCsv ==
    (pc = "done" /\ ~protect) =>
        LET rows == RowsOf(emailMessages, UploadCampaign) IN
        /\ Len(rows) = Len(csvRows)
        /\ \A i \in DOMAIN rows :
              /\ rows[i].recipient = csvRows[i]["recipient"]
              /\ rows[i].params = csvRows[i]

\* C5 witness: a committed plain upload of several chunks in which one
\* recipient occurs in two rows.
C5_Witness ==
    /\ pc = "done"
    /\ ~protect
    /\ chunkNo >= 2
    /\ \E i, j \in DOMAIN csvRows :
          i < j /\ csvRows[i]["recipient"] = csvRows[j]["recipient"]
    /\ Len(RowsOf(emailMessages, UploadCampaign)) = Len(csvRows)

\* C6: a CSV whose columns do not cover the required keys is rejected by
\* the preview phase with a header mismatch, and the message rows and
\* protected rows, committed and inside the transaction, are those from
\* before the attempt.
C6_HeaderMismatchChangesNothing ==
    (pc \notin {"idle", "preview"} /\ ~(RequiredKeys \subseteq header)) =>
        /\ pc = "failed"
        /\ error = "HeaderMismatch"
        /\ failedAt = "preview"
        /\ CommittedUntouched
        /\ txEmail = preEmail
        /\ txProtected = preProtected

\* C6 witness: the second upload to a campaign that holds rows is rejected
\* for its header.
C6_Witness ==
    /\ pc = "failed"
    /\ error = "HeaderMismatch"
    /\ upload = "second"
    /\ ~(RequiredKeys \subseteq header)
    /\ RowsOf(preEmail, UploadCampaign) # <<>>

\* C7: a test send for a campaign that has no template or no stored message
\* parameters fails with "No message to send" and hands nothing to the
\* transport.
C7_NothingToSend ==
    (/\ sent.status # "none"
     /\ \/ emailTemplates[sent.campaignId].absent
        \/ RowsOf(emailMessages, sent.campaignId) = <<>>) =>
        /\ sent.status = "failed"
        /\ sent.error = "No message to send"
        /\ transportCalls = <<>>

\* C7 witness: the campaign has message rows but no template, and the send
\* has failed.
C7_Witness ==
    /\ sent.status = "failed"
    /\ emailTemplates[sent.campaignId].absent
    /\ RowsOf(emailMessages, sent.campaignId) # <<>>

\* C8: a test send ends in one of three ways: success, after exactly one
\* transport call that reported success; "Could not send test email to
\* <recipient>", after a transport call that reported no success; or a
\* failure with no transport call at all.
C8_NoPartialSuccess ==
    sent.status # "none" =>
        \/ /\ sent.status = "ok"
           /\ Len(transportCalls) = 1
           /\ transportCalls[1].outcome = "messageId"
        \/ /\ sent.status = "failed"
           /\ Len(transportCalls) = 1
           /\ transportCalls[1].outcome # "messageId"
           /\ sent.error = "Could not send test email to"
        \/ /\ sent.status = "failed"
           /\ transportCalls = <<>>

\* C9: findCampaign returns a campaign only if it has the id asked for,
\* the user asked for as its owner and the Email channel; in every other
\* case (unknown id, another owner, an SMS campaign) it returns the same
\* empty result.
C9_FindOwnedEmailCampaign ==
    found.called =>
        LET owned == {c \in campaigns : /\ c.id = found.campaignId
                                         /\ c.userId = found.userId
                                         /\ c.type = "EMAIL"}
        IN  /\ found.result # None =>
                  /\ found.result[1].id = found.campaignId
                  /\ found.result[1].userId = found.userId
                  /\ found.result[1].type = "EMAIL"
            /\ owned = {} => found.result = None

\* C9 witness: a call for an Email campaign that exists but belongs to
\* another user returned the empty result.
C9_Witness ==
    /\ found.called
    /\ found.result = None
    /\ \E c \in campaigns : /\ c.id = found.campaignId
                            /\ c.type = "EMAIL"
                            /\ c.userId # found.userId

\* C10: when the transport call throws or its promise rejects, the test
\* send fails with "Could not send test email to <recipient>", never with
\* the transport's own error.
C10_TransportErrorSwallowed ==
    (/\ Len(transportCalls) = 1
     /\ transportCalls[1].outcome \in {"throws", "rejects"}) =>
        /\ sent.status = "failed"
        /\ sent.error = "Could not send test email to"

====
